---- MODULE Spec2Model ----
(***************************************************************************)
(* A model of the caption-generator backend (src/main.py): the FastAPI     *)
(* handlers generate_caption, get_history, delete_history_item and         *)
(* clear_all_history, their verify_token dependency, the caption_history   *)
(* table they share, and the text clean-up of enhance_caption_with_groq.   *)
(*                                                                         *)
(* Python strings are TLA+ strings; Optional[str] is a tuple, <<>> for     *)
(* None and <<s>> for the string s.                                        *)
(***************************************************************************)
EXTENDS Integers, Sequences, FiniteSets, TLC

----------------------------------------------------------------------------
(* Python str operations, as the handlers use them *)

\* a Python string: the sequence of its characters
Str(s) == [i \in 1..Len(s) |-> SubSeq(s, i, i)]

None == <<>>

Some(s) == <<s>>

\* Python truthiness of an Optional[str]: None and "" are falsy
Truthy(o) == o # None /\ o[1] # Str("")

Whitespace == {" ", "\t", "\n", "\r"}

UpperCase == Str("ABCDEFGHIJKLMNOPQRSTUVWXYZ")

LowerCase == Str("abcdefghijklmnopqrstuvwxyz")

CaseMap == [c \in {UpperCase[i] : i \in 1..Len(UpperCase)} |->
                LowerCase[CHOOSE i \in 1..Len(UpperCase) : UpperCase[i] = c]]

LowerChar(c) == IF c \in DOMAIN CaseMap THEN CaseMap[c] ELSE c

\* str.lower()
Lower(s) == [i \in 1..Len(s) |-> LowerChar(s[i])]

\* str.startswith(prefix)
StartsWith(s, prefix) ==
    Len(prefix) <= Len(s) /\ SubSeq(s, 1, Len(prefix)) = prefix

\* s[n:]
DropFirst(s, n) == SubSeq(s, n + 1, Len(s))

\* str.lstrip(chars)
LStripChars(s, chars) ==
    LET kept == {i \in 1..Len(s) : s[i] \notin chars}
    IN  IF kept = {} THEN <<>>
        ELSE SubSeq(s, CHOOSE i \in kept : \A j \in kept : i <= j, Len(s))

\* str.rstrip(chars)
RStripChars(s, chars) ==
    LET kept == {i \in 1..Len(s) : s[i] \notin chars}
    IN  IF kept = {} THEN <<>>
        ELSE SubSeq(s, 1, CHOOSE i \in kept : \A j \in kept : i >= j)

\* str.strip()
Strip(s) == RStripChars(LStripChars(s, Whitespace), Whitespace)

\* the index of the first " " of s, 0 when there is none
FirstSpace(s) ==
    LET spaces == {i \in 1..Len(s) : s[i] = " "}
    IN  IF spaces = {} THEN 0 ELSE CHOOSE i \in spaces : \A j \in spaces : i <= j

\* s.split(" ")[1], for an s that holds a " "
SecondField(s) ==
    LET rest == DropFirst(s, FirstSpace(s))
        stop == FirstSpace(rest)
    IN  IF stop = 0 THEN rest ELSE SubSeq(rest, 1, stop - 1)

----------------------------------------------------------------------------
(* enhance_caption_with_groq: the clean-up of the completion's text *)

prefixes_to_remove ==
    <<Str("Enhanced caption:"), Str("Caption:"), Str("Here's"), Str("Here is")>>

\* prefix.lower(), for each prefix
LowerPrefixes == [i \in 1..Len(prefixes_to_remove) |-> Lower(prefixes_to_remove[i])]

\* the first prefix of prefixes_to_remove that s starts with, 0 when none does
FirstPrefix(s) ==
    LET low == Lower(s)
        hits == {i \in 1..Len(prefixes_to_remove) : StartsWith(low, LowerPrefixes[i])}
    IN  IF hits = {} THEN 0 ELSE CHOOSE i \in hits : \A j \in hits : i <= j

\* the for loop with its break: one prefix at most is cut
RemovePrefix(s) ==
    LET hit == FirstPrefix(s)
    IN  IF hit = 0 THEN s
        ELSE Strip(LStripChars(DropFirst(s, Len(prefixes_to_remove[hit])), {":"}))

\* "Remove any remaining colons at the beginning"
RemoveColon(s) == IF s # <<>> /\ s[1] = ":" THEN Strip(DropFirst(s, 1)) ELSE s

\* the text enhance_caption_with_groq returns for a completion's content
PostProcess(content) == RemoveColon(RemovePrefix(Strip(content)))

----------------------------------------------------------------------------
(* bounds of the model *)

\* rows the caption_history table may hold when the process starts
MaxSeed == 2

\* seconds CURRENT_TIMESTAMP runs through
MaxClock == 2

\* fragments a completion's content is put together from
MaxFrags == 3

----------------------------------------------------------------------------
(* the environment: users, credentials, what the external services answer *)

\* the threadpool workers that run the (sync) handlers; each serves one request,
\* and the rows of the requests before them are the table's rows at the start
Procs == {"w1", "w2"}

Users == {"u1", "u2"}

\* auth.verify_id_token: the uid of a token, "" for one it raises on
VerifyIdToken(token) ==
    CASE token = Str("t1") -> "u1"
      [] token = Str("t2") -> "u2"
      [] OTHER -> ""

Authorizations ==
    {None, Some(Str("")), Some(Str("Bearer t1")), Some(Str("t2")),
     Some(Str("Bearer bad")), Some(Str("Bearer "))}

GoodUrl == Str("https://a/c.jpg")

ImageUrls == {Str(""), Str("ftp://a/c.jpg"), GoodUrl, Str("httpx://a/c.jpg")}

Styles == {"funny", "custom"}

CustomDescriptions == {None, Some(Str("")), Some(Str(" \t")), Some(Str("moody"))}

DefaultLimit == 50

Limits == {-1, 0, 1, 2, DefaultLimit}

HistoryIds == 1..(MaxSeed + 1)

HttpScheme == Str("http://")

HttpsScheme == Str("https://")

\* requests.get knows the http and https schemes only; any other URL raises
Fetchable(url) ==
    LET low == Lower(url)
    IN  StartsWith(low, HttpScheme) \/ StartsWith(low, HttpsScheme)

\* result[0]["generated_text"] of the BLIP pipeline
InferenceOutputs == {Str("a cat"), Str("Caption: a cat")}

\* chat_completion.choices[0].message.content of the Groq completion
CompletionOutputs == {Str("Enhanced caption: Just a cat "), Str("a cat")}

----------------------------------------------------------------------------
(* requests *)

GenerateRequest(a, url, style, cd) ==
    [op |-> "generate", authorization |-> a, image_url |-> url, style |-> style,
     custom_description |-> cd, limit |-> DefaultLimit, history_id |-> 0]

HistoryRequest(a, limit) ==
    [op |-> "history", authorization |-> a, image_url |-> Str(""), style |-> "",
     custom_description |-> None, limit |-> limit, history_id |-> 0]

DeleteRequest(a, id) ==
    [op |-> "delete", authorization |-> a, image_url |-> Str(""), style |-> "",
     custom_description |-> None, limit |-> DefaultLimit, history_id |-> id]

ClearRequest(a) ==
    [op |-> "clear", authorization |-> a, image_url |-> Str(""), style |-> "",
     custom_description |-> None, limit |-> DefaultLimit, history_id |-> 0]

\* every request the model sends
Requests ==
    {GenerateRequest(a, url, style, cd) :
        a \in Authorizations, url \in ImageUrls, style \in Styles, cd \in CustomDescriptions}
    \cup {HistoryRequest(a, limit) : a \in Authorizations, limit \in Limits}
    \cup {DeleteRequest(a, id) : a \in Authorizations, id \in HistoryIds}
    \cup {ClearRequest(a) : a \in Authorizations}

\* the requests that reach the table: a verified user, input that passes validation
StoreRequests ==
    {r \in Requests :
        /\ r.authorization \in {Some(Str("Bearer t1")), Some(Str("t2"))}
        /\ r.op = "generate" =>
              /\ r.image_url = GoodUrl
              /\ r.style = "custom"
              /\ r.custom_description = Some(Str("moody"))
        /\ r.op = "history" => r.limit \in {1, DefaultLimit}}

NoRequest ==
    [op |-> "none", authorization |-> None, image_url |-> Str(""), style |-> "",
     custom_description |-> None, limit |-> DefaultLimit, history_id |-> 0]

----------------------------------------------------------------------------
(* state *)

VARIABLES
    store,      \* the rows of the caption_history table
    nextId,     \* the id AUTOINCREMENT gives the next row
    clock,      \* CURRENT_TIMESTAMP, in seconds
    pc,         \* per worker: where its handler stands
    req,        \* per worker: the request it handles
    loc,        \* per worker: the handler's local variables
    resp,       \* per worker: the response of the request, once it is done
    calls,      \* per worker: the external calls the request made, in order
    owner,      \* history: owner[i] is the user_id of the row that got id i
    deleted,    \* history: the ids whose DELETE /user/history/{id} answered success
    clean       \* the clean-up of one completion, applied once and again

vars == <<store, nextId, clock, pc, req, loc, resp, calls, owner, deleted, clean>>

appvars == <<store, nextId, clock, pc, req, loc, resp, calls, owner, deleted>>

NoLocals == [user_id |-> "", basic_caption |-> Str(""), enhanced_caption |-> Str("")]

NoResponse == [status |-> 0, body |-> [detail |-> ""]]

\* raise HTTPException(status_code, detail)
HTTPException(status_code, detail) == [status |-> status_code, body |-> [detail |-> detail]]

\* JSONResponse(content)
JSONResponse(content) == [status |-> 200, body |-> content]

Call(name, ok) == [name |-> name, ok |-> ok]

Called(p, name) == \E i \in 1..Len(calls[p]) : calls[p][i].name = name

Failed(p, name) == \E i \in 1..Len(calls[p]) : calls[p][i] = Call(name, FALSE)

\* a row of the table as a previous run of the process left it
SeedRow(i, u, t) ==
    [id |-> i, user_id |-> u, image_url |-> GoodUrl,
     basic_caption |-> Str("a cat"), enhanced_caption |-> Str("Just a cat"),
     style |-> "funny", custom_description |-> None, created_at |-> t]

\* the complete completions' contents the clean-up is tried on
Fragments ==
    {Str("Enhanced caption:"), Str("caption:"), Str("Here's"), Str("HERE IS"),
     Str(":"), Str(" "), Str("a cat")}

RECURSIVE Contents(_)
Contents(n) ==
    IF n = 0 THEN {Str("")}
    ELSE Contents(n - 1) \cup {f \o c : f \in Fragments, c \in Contents(n - 1)}

NotCleaning == [stage |-> "off", content |-> Str(""), once |-> Str(""), twice |-> Str("")]

\* init_database: CREATE TABLE IF NOT EXISTS keeps the rows of earlier runs
InitApp ==
    /\ \E n \in 0..MaxSeed :
         \E u \in [1..n -> Users], t \in [1..n -> 1..MaxClock] :
            /\ \A i, j \in 1..n : i <= j => t[i] <= t[j]
            /\ store = {SeedRow(i, u[i], t[i]) : i \in 1..n}
            /\ owner = [i \in 1..n |-> u[i]]
            /\ nextId = n + 1
            /\ clock = IF n = 0 THEN 1 ELSE t[n]
    /\ pc = [p \in Procs |-> "idle"]
    /\ req = [p \in Procs |-> NoRequest]
    /\ loc = [p \in Procs |-> NoLocals]
    /\ resp = [p \in Procs |-> NoResponse]
    /\ calls = [p \in Procs |-> <<>>]
    /\ deleted = {}

Init == InitApp /\ clean = NotCleaning

----------------------------------------------------------------------------
(* the handlers, one action per step *)

\* the response leaves the handler
Reply(p, r) ==
    /\ resp' = [resp EXCEPT ![p] = r]
    /\ pc' = [pc EXCEPT ![p] = "done"]

Log(p, c) == calls' = [calls EXCEPT ![p] = Append(@, c)]

\* a worker takes a request off the wire
Receive(p, r) ==
    /\ pc[p] = "idle"
    /\ req' = [req EXCEPT ![p] = r]
    /\ pc' = [pc EXCEPT ![p] = "auth"]
    /\ UNCHANGED <<store, nextId, clock, loc, resp, calls, owner, deleted, clean>>

BearerPrefix == Str("Bearer ")

\* a verify_token that lets a request without a header through as nobody
verify_token_optional(authorization) ==
    IF ~Truthy(authorization)
    THEN [ok |-> TRUE, uid |-> "", detail |-> "", calls |-> <<>>]
    ELSE LET a == authorization[1]
             token == IF StartsWith(a, BearerPrefix) THEN SecondField(a) ELSE a
             uid == VerifyIdToken(token)
         IN  IF uid = ""
             THEN [ok |-> FALSE, uid |-> "", detail |-> "Invalid or expired token",
                   calls |-> <<Call("verify_id_token", FALSE)>>]
             ELSE [ok |-> TRUE, uid |-> uid, detail |-> "",
                   calls |-> <<Call("verify_id_token", TRUE)>>]

\* verify_token: the uid of the header's token, or the 401 it raises
verify_token(authorization) ==
    IF ~Truthy(authorization)
    THEN [ok |-> FALSE, uid |-> "", detail |-> "Authorization header missing",
          calls |-> <<>>]
    ELSE LET a == authorization[1]
             token == IF StartsWith(a, BearerPrefix) THEN SecondField(a) ELSE a
             uid == VerifyIdToken(token)
         IN  IF uid = ""
             THEN [ok |-> FALSE, uid |-> "", detail |-> "Invalid or expired token",
                   calls |-> <<Call("verify_id_token", FALSE)>>]
             ELSE [ok |-> TRUE, uid |-> uid, detail |-> "",
                   calls |-> <<Call("verify_id_token", TRUE)>>]

\* the first step of each handler's body
Entry(op) ==
    CASE op = "generate" -> "validate"
      [] op = "history" -> "list"
      [] op = "delete" -> "select"
      [] op = "clear" -> "clear"

\* Depends(verify_token): resolved before the handler's body runs
Auth(p) ==
    /\ pc[p] = "auth"
    /\ LET v == verify_token(req[p].authorization)
       IN  /\ calls' = [calls EXCEPT ![p] = @ \o v.calls]
           /\ IF v.ok
              THEN /\ loc' = [loc EXCEPT ![p].user_id = v.uid]
                   /\ pc' = [pc EXCEPT ![p] = Entry(req[p].op)]
                   /\ UNCHANGED resp
              ELSE /\ Reply(p, HTTPException(401, v.detail))
                   /\ UNCHANGED loc
    /\ UNCHANGED <<store, nextId, clock, req, owner, deleted, clean>>

Http == Str("http")

\* not image_url or not image_url.startswith("http")
InvalidUrl(image_url) == image_url = Str("") \/ ~StartsWith(image_url, Http)

\* style == "custom" and (not custom_description or not custom_description.strip())
MissingCustom(style, custom_description) ==
    /\ style = "custom"
    /\ ~Truthy(custom_description) \/ Strip(custom_description[1]) = Str("")

\* generate_caption: the two validations
Validate(p) ==
    /\ pc[p] = "validate"
    /\ IF InvalidUrl(req[p].image_url)
       THEN Reply(p, HTTPException(400, "Invalid image URL"))
       ELSE IF MissingCustom(req[p].style, req[p].custom_description)
       THEN Reply(p, HTTPException(400,
                "Custom description is required when using custom style"))
       ELSE /\ pc' = [pc EXCEPT ![p] = "fetch"]
            /\ UNCHANGED resp
    /\ UNCHANGED <<store, nextId, clock, req, loc, calls, owner, deleted, clean>>

\* what requests.get and Image.open may come to for a URL
FetchOutcomes(url) ==
    IF Fetchable(url) THEN {"ok", "bad_status", "undecodable", "unreachable"}
    ELSE {"no_adapter"}

\* a fetch without raise_for_status: an error page goes on as the image
FetchRaisesUnchecked(outcome) == outcome \notin {"ok", "bad_status"}

\* requests.get, raise_for_status and Image.open: whether one of them raises
FetchRaises(outcome) == outcome # "ok"

\* generate_caption: fetch and decode the image
Fetch(p) ==
    /\ pc[p] = "fetch"
    /\ \E outcome \in FetchOutcomes(req[p].image_url) :
          /\ Log(p, Call("requests.get", outcome = "ok"))
          /\ IF FetchRaises(outcome)
             THEN Reply(p, HTTPException(500, "Failed to generate caption"))
             ELSE /\ pc' = [pc EXCEPT ![p] = "infer"]
                  /\ UNCHANGED resp
    /\ UNCHANGED <<store, nextId, clock, req, loc, owner, deleted, clean>>

\* generate_caption: the BLIP pipeline gives the basic caption, or raises
Infer(p) ==
    /\ pc[p] = "infer"
    /\ \/ \E text \in InferenceOutputs :
            /\ Log(p, Call("caption_pipeline", TRUE))
            /\ loc' = [loc EXCEPT ![p].basic_caption = text]
            /\ pc' = [pc EXCEPT ![p] = "enhance"]
            /\ UNCHANGED resp
       \/ /\ Log(p, Call("caption_pipeline", FALSE))
          /\ Reply(p, HTTPException(500, "Failed to generate caption"))
          /\ UNCHANGED loc
    /\ UNCHANGED <<store, nextId, clock, req, owner, deleted, clean>>

\* a fallback that cleans the basic caption up like a completion
FallbackCleaned(basic_caption) == PostProcess(basic_caption)

\* enhance_caption_with_groq, except Exception: return basic_caption
Fallback(basic_caption) == basic_caption

\* generate_caption: enhance_caption_with_groq
Enhance(p) ==
    /\ pc[p] = "enhance"
    /\ \/ \E content \in CompletionOutputs :
            /\ Log(p, Call("groq", TRUE))
            /\ loc' = [loc EXCEPT ![p].enhanced_caption = PostProcess(content)]
       \/ /\ Log(p, Call("groq", FALSE))
          /\ loc' = [loc EXCEPT ![p].enhanced_caption = Fallback(loc[p].basic_caption)]
    /\ pc' = [pc EXCEPT ![p] = "save"]
    /\ UNCHANGED <<store, nextId, clock, req, resp, owner, deleted, clean>>

\* the response_data of generate_caption
ResponseData(r, l) ==
    LET data == [success |-> TRUE, image_url |-> r.image_url,
                 basic_caption |-> l.basic_caption,
                 enhanced_caption |-> l.enhanced_caption, style |-> r.style]
    IN  IF r.style = "custom" /\ Truthy(r.custom_description)
        THEN [success |-> TRUE, image_url |-> r.image_url,
              basic_caption |-> l.basic_caption,
              enhanced_caption |-> l.enhanced_caption, style |-> r.style,
              custom_description |-> r.custom_description[1]]
        ELSE data

\* a save_to_history that lets the table's fault out
SaveRaisesFault(fault) == fault

\* save_to_history, except Exception: print: nothing is raised
SaveRaises(fault) == FALSE

\* generate_caption: save_to_history and the response
Save(p) ==
    /\ pc[p] = "save"
    /\ \E fault \in BOOLEAN, now \in clock..MaxClock :
          /\ Log(p, Call("INSERT", ~fault))
          /\ clock' = now
          /\ IF fault
             THEN UNCHANGED <<store, nextId, owner>>
             ELSE /\ store' = store \cup
                        {[id |-> nextId, user_id |-> loc[p].user_id,
                          image_url |-> req[p].image_url,
                          basic_caption |-> loc[p].basic_caption,
                          enhanced_caption |-> loc[p].enhanced_caption,
                          style |-> req[p].style,
                          custom_description |-> req[p].custom_description,
                          created_at |-> now]}
                  /\ nextId' = nextId + 1
                  /\ owner' = Append(owner, loc[p].user_id)
          /\ IF SaveRaises(fault)
             THEN Reply(p, HTTPException(500, "Failed to generate caption"))
             ELSE Reply(p, JSONResponse(ResponseData(req[p], loc[p])))
    /\ UNCHANGED <<req, loc, deleted, clean>>

\* the columns get_user_history selects
Columns(r) ==
    [id |-> r.id, image_url |-> r.image_url, basic_caption |-> r.basic_caption,
     enhanced_caption |-> r.enhanced_caption, style |-> r.style,
     custom_description |-> r.custom_description, created_at |-> r.created_at]

RECURSIVE Orderings(_)
\* ORDER BY created_at DESC: every order of the rows SQLite may give; rows of
\* the same second come in either order
Orderings(rows) ==
    IF rows = {} THEN {<<>>}
    ELSE UNION {{<<r>> \o rest : rest \in Orderings(rows \ {r})} :
                    r \in {x \in rows : \A y \in rows : x.created_at >= y.created_at}}

\* LIMIT n: SQLite takes a negative n as no limit
Limit(rows, n) == IF n < 0 \/ n >= Len(rows) THEN rows ELSE SubSeq(rows, 1, n)

\* the SELECT of get_user_history
QueryResults(rows, user_id, limit) ==
    {Limit([i \in 1..Len(o) |-> Columns(o[i])], limit) :
        o \in Orderings({r \in rows : r.user_id = user_id})}

\* get_history: get_user_history answers [] when the query raises
List(p) ==
    /\ pc[p] = "list"
    /\ \E fault \in BOOLEAN :
          /\ Log(p, Call("SELECT", ~fault))
          /\ \E history \in IF fault THEN {<<>>}
                            ELSE QueryResults(store, loc[p].user_id, req[p].limit) :
                Reply(p, JSONResponse([success |-> TRUE, history |-> history,
                                       total |-> Len(history)]))
    /\ UNCHANGED <<store, nextId, clock, req, loc, owner, deleted, clean>>

\* an ownership check that lets every user through
AuthorizedAnyone(row_user_id, user_id) == TRUE

\* result[0] != user_id raises the 403
Authorized(row_user_id, user_id) == row_user_id = user_id

\* delete_history_item: SELECT user_id ... WHERE id = ?, and the two checks
Select(p) ==
    /\ pc[p] = "select"
    /\ Log(p, Call("SELECT", TRUE))
    /\ LET result == {r \in store : r.id = req[p].history_id}
       IN  IF result = {}
           THEN Reply(p, HTTPException(404, "History item not found"))
           ELSE IF ~Authorized((CHOOSE r \in result : TRUE).user_id, loc[p].user_id)
           THEN Reply(p, HTTPException(403, "Not authorized to delete this item"))
           ELSE /\ pc' = [pc EXCEPT ![p] = "delete"]
                /\ UNCHANGED resp
    /\ UNCHANGED <<store, nextId, clock, req, loc, owner, deleted, clean>>

\* DELETE FROM caption_history WHERE id = ? AND user_id = ?
DeleteRow(rows, id, user_id) == {r \in rows : ~(r.id = id /\ r.user_id = user_id)}

\* delete_history_item: the DELETE, its commit and the response
Delete(p) ==
    /\ pc[p] = "delete"
    /\ Log(p, Call("DELETE", TRUE))
    /\ store' = DeleteRow(store, req[p].history_id, loc[p].user_id)
    /\ deleted' = deleted \cup {req[p].history_id}
    /\ Reply(p, JSONResponse([success |-> TRUE,
                              message |-> "History item deleted successfully"]))
    /\ UNCHANGED <<nextId, clock, req, loc, owner, clean>>

\* a DELETE without its WHERE clause
ClearEveryRow(rows, user_id) == {}

\* DELETE FROM caption_history WHERE user_id = ?
ClearRows(rows, user_id) == {r \in rows : r.user_id # user_id}

\* clear_all_history
Clear(p) ==
    /\ pc[p] = "clear"
    /\ Log(p, Call("DELETE", TRUE))
    /\ store' = ClearRows(store, loc[p].user_id)
    /\ Reply(p, JSONResponse([success |-> TRUE,
                              deleted_count |-> Cardinality(store \ store')]))
    /\ UNCHANGED <<nextId, clock, req, loc, owner, deleted, clean>>

----------------------------------------------------------------------------
(* specifications *)

\* the workers run the handlers in any interleaving
Next ==
    \/ \E p \in Procs, r \in StoreRequests : Receive(p, r)
    \/ \E p \in Procs : Auth(p)
    \/ \E p \in Procs : Validate(p)
    \/ \E p \in Procs : Fetch(p)
    \/ \E p \in Procs : Infer(p)
    \/ \E p \in Procs : Enhance(p)
    \/ \E p \in Procs : Save(p)
    \/ \E p \in Procs : List(p)
    \/ \E p \in Procs : Select(p)
    \/ \E p \in Procs : Delete(p)
    \/ \E p \in Procs : Clear(p)

Spec == Init /\ [][Next]_vars

\* a request that no other request runs beside
ReceiveAlone(p, r) ==
    /\ \A q \in Procs : pc[q] = "idle"
    /\ Receive(p, r)

\* one request on its own, over every request of the model
SoloNext ==
    \/ \E p \in Procs, r \in Requests : ReceiveAlone(p, r)
    \/ \E p \in Procs : Auth(p)
    \/ \E p \in Procs : Validate(p)
    \/ \E p \in Procs : Fetch(p)
    \/ \E p \in Procs : Infer(p)
    \/ \E p \in Procs : Enhance(p)
    \/ \E p \in Procs : Save(p)
    \/ \E p \in Procs : List(p)
    \/ \E p \in Procs : Select(p)
    \/ \E p \in Procs : Delete(p)
    \/ \E p \in Procs : Clear(p)

SoloSpec == Init /\ [][SoloNext]_vars

\* the clean-up of a completion's content, applied once
CleanOnce ==
    /\ clean.stage = "content"
    /\ clean' = [clean EXCEPT !.stage = "once", !.once = PostProcess(clean.content)]
    /\ UNCHANGED appvars

\* the clean-up applied to its own result
CleanAgain ==
    /\ clean.stage = "once"
    /\ clean' = [clean EXCEPT !.stage = "twice", !.twice = PostProcess(clean.once)]
    /\ UNCHANGED appvars

CleanInit ==
    /\ store = {} /\ owner = <<>> /\ nextId = 1 /\ clock = 1
    /\ pc = [p \in Procs |-> "idle"]
    /\ req = [p \in Procs |-> NoRequest]
    /\ loc = [p \in Procs |-> NoLocals]
    /\ resp = [p \in Procs |-> NoResponse]
    /\ calls = [p \in Procs |-> <<>>]
    /\ deleted = {}
    /\ \E c \in Contents(MaxFrags) :
          clean = [stage |-> "content", content |-> c, once |-> Str(""), twice |-> Str("")]

CleanNext == CleanOnce \/ CleanAgain

CleanSpec == CleanInit /\ [][CleanNext]_vars

----------------------------------------------------------------------------
(* what the claims speak of *)

Done(p, op) == pc[p] = "done" /\ req[p].op = op

\* the request has passed verify_token
Verified(p) == Call("verify_id_token", TRUE) \in {calls[p][i] : i \in 1..Len(calls[p])}

\* the rows a history response lists
HistoryOf(p) == resp[p].body.history

\* the url begins with an HTTP(S) scheme
HasHttpScheme(url) == StartsWith(url, HttpScheme) \/ StartsWith(url, HttpsScheme)

\* the description is absent or blank
BlankDescription(cd) == cd = None \/ Strip(cd[1]) = Str("")

\* the calls that are the work of a generation
GenerationCalls == {"requests.get", "caption_pipeline", "groq", "INSERT"}

----------------------------------------------------------------------------
(* C1: a deleteOne answers success only if its own DELETE removed the row,  *)
(* so no two deleteOne of the same id both answer success, in any           *)
(* interleaving of deleteOne and deleteAllForUser requests.                 *)

C1_OneSuccessPerId ==
    \A p, q \in Procs :
        (/\ p # q
         /\ Done(p, "delete") /\ Done(q, "delete")
         /\ req[p].history_id = req[q].history_id
         /\ resp[p].status = 200)
        => resp[q].status # 200

C1_SuccessRemoves ==
    \A p \in Procs :
        (pc[p] = "delete" /\ pc'[p] = "done" /\ resp'[p].status = 200)
        => \E r \in store \ store' : r.id = req[p].history_id

C1_DeleteOneAtomic == [][C1_SuccessRemoves]_vars /\ []C1_OneSuccessPerId

----------------------------------------------------------------------------
(* C2: ownership isolation. A row leaves the table only in the DELETE of a  *)
(* request whose verified user is the row's user_id; a history response     *)
(* lists only rows of the requesting user; clear_all_history leaves the     *)
(* rows of every other user as they were.                                   *)

C2_ListsOwnRows ==
    \A p \in Procs :
        (Done(p, "history") /\ resp[p].status = 200)
        => \A i \in 1..Len(HistoryOf(p)) : owner[HistoryOf(p)[i].id] = loc[p].user_id

C2_RemovedByOwner ==
    \A r \in store \ store' :
        \E p \in Procs :
            /\ pc[p] \in {"delete", "clear"} /\ pc'[p] = "done"
            /\ loc[p].user_id = r.user_id

C2_ClearKeepsOthers ==
    \A p \in Procs :
        (pc[p] = "clear" /\ pc'[p] = "done")
        => {r \in store' : r.user_id # loc[p].user_id}
              = {r \in store : r.user_id # loc[p].user_id}

C2_OwnershipIsolation ==
    /\ []C2_ListsOwnRows
    /\ [][C2_RemovedByOwner]_vars
    /\ [][C2_ClearKeepsOthers]_vars

\* one user has cleared their rows, a delete of another user's row was refused,
\* and that row is still there
C2_Witness ==
    \E p, q \in Procs :
        /\ Done(p, "clear") /\ resp[p].body.deleted_count > 0
        /\ Done(q, "delete") /\ resp[q].status = 403
        /\ \E r \in store : r.id = req[q].history_id /\ r.user_id # loc[q].user_id

----------------------------------------------------------------------------
(* C3: delete_history_item. With no row of that id it answers 404 and the   *)
(* table is as it was; with a row of another user it answers 403 and the    *)
(* row stays; for the owner it goes on to the DELETE, which answers success *)
(* and removes that row and no other; a history listed after that does not  *)
(* hold the row.                                                            *)

C3_SelectStep ==
    \A p \in Procs :
        (pc[p] = "select" /\ pc'[p] # "select")
        => LET hit == {r \in store : r.id = req[p].history_id}
           IN  /\ store' = store
               /\ hit = {} => pc'[p] = "done" /\ resp'[p].status = 404
               /\ (hit # {} /\ \A r \in hit : r.user_id # loc[p].user_id)
                     => pc'[p] = "done" /\ resp'[p].status = 403
               /\ (hit # {} /\ \A r \in hit : r.user_id = loc[p].user_id)
                     => pc'[p] = "delete"

C3_DeleteStep ==
    \A p \in Procs :
        (pc[p] = "delete" /\ pc'[p] # "delete")
        => /\ pc'[p] = "done" /\ resp'[p].status = 200
           /\ store' = {r \in store : r.id # req[p].history_id}

C3_ListedAfter ==
    \A p \in Procs :
        (pc[p] = "list" /\ pc'[p] = "done")
        => \A i \in 1..Len(resp'[p].body.history) :
              resp'[p].body.history[i].id \notin deleted

----------------------------------------------------------------------------
(* C4: validation is fail-fast. A verified generate-caption request whose   *)
(* image_url is absent or does not begin with an HTTP(S) scheme, or whose   *)
(* style is "custom" with an absent or blank description, ends with 400 and *)
(* makes no fetch, inference, enhancement or insert; every other one goes   *)
(* on to the fetch.                                                         *)

C4_ValidationFailFast ==
    \A p \in Procs :
        (req[p].op = "generate" /\ Verified(p))
        => IF \/ ~HasHttpScheme(req[p].image_url)
              \/ req[p].style = "custom" /\ BlankDescription(req[p].custom_description)
           THEN /\ \A c \in GenerationCalls : ~Called(p, c)
                /\ pc[p] = "done" => resp[p].status = 400
           ELSE pc[p] = "done" => Called(p, "requests.get")

----------------------------------------------------------------------------
(* C5: the fallback law. When the enhancement call raises, the request goes *)
(* on, answers success with enhanced_caption equal to basic_caption as the  *)
(* inference gave it, and the row it inserts holds that enhanced_caption.   *)

C5_FallbackLaw ==
    \A p \in Procs :
        (req[p].op = "generate" /\ Failed(p, "groq"))
        => /\ pc[p] \in {"save", "done"}
           /\ loc[p].enhanced_caption = loc[p].basic_caption
           /\ pc[p] = "done" =>
                /\ resp[p].status = 200
                /\ resp[p].body.basic_caption = loc[p].basic_caption
                /\ resp[p].body.enhanced_caption = loc[p].basic_caption
                /\ Called(p, "INSERT") /\ ~Failed(p, "INSERT") =>
                      \E r \in store :
                          /\ r.id = nextId - 1 /\ r.user_id = loc[p].user_id
                          /\ r.basic_caption = loc[p].basic_caption
                          /\ r.enhanced_caption = loc[p].basic_caption

\* the enhancement raised for a basic caption the clean-up would change, and
\* the row is in the table
C5_Witness ==
    \E p \in Procs :
        /\ Done(p, "generate") /\ Failed(p, "groq")
        /\ Called(p, "INSERT") /\ ~Failed(p, "INSERT")
        /\ PostProcess(loc[p].basic_caption) # loc[p].basic_caption

----------------------------------------------------------------------------
(* C6: the clean-up of a completion's content is idempotent: applied to its *)
(* own result it gives that result again.                                   *)

C6_CleanIdempotent == clean.stage = "twice" => clean.twice = clean.once

----------------------------------------------------------------------------
(* C7: no partial record. A row enters the table only in the save of a      *)
(* generate-caption request whose fetch and inference both succeeded; when  *)
(* the fetch or the inference fails the request ends with 500, having made  *)
(* no enhancement call and no insert.                                       *)

C7_FailureAborts ==
    \A p \in Procs :
        (req[p].op = "generate"
            /\ (Failed(p, "requests.get") \/ Failed(p, "caption_pipeline")))
        => /\ pc[p] = "done" /\ resp[p].status = 500
           /\ ~Called(p, "groq") /\ ~Called(p, "INSERT")

C7_InsertedAfterSuccess ==
    \A r \in store' \ store :
        \E p \in Procs :
            /\ req[p].op = "generate" /\ pc[p] = "save" /\ pc'[p] = "done"
            /\ Called(p, "requests.get") /\ ~Failed(p, "requests.get")
            /\ Called(p, "caption_pipeline") /\ ~Failed(p, "caption_pipeline")
            /\ r.user_id = loc[p].user_id
            /\ r.basic_caption = loc[p].basic_caption

C7_NoPartialRecord == []C7_FailureAborts /\ [][C7_InsertedAfterSuccess]_vars

\* the fetch succeeded and the inference raised: 500, and the table holds
\* the rows it held
C7_Witness ==
    \E p \in Procs :
        /\ Done(p, "generate") /\ Failed(p, "caption_pipeline")
        /\ ~Failed(p, "requests.get")
        /\ resp[p].status = 500
        /\ Cardinality(store) = nextId - 1 /\ store # {}

----------------------------------------------------------------------------
(* C8: storage is best-effort. When the insert of save_to_history faults,   *)
(* the table is left as it was and the caller gets the success response     *)
(* with the request's image_url and style and the captions computed.        *)

C8_ResponseDespiteFault ==
    \A p \in Procs :
        Failed(p, "INSERT")
        => /\ pc[p] = "done" /\ resp[p].status = 200
           /\ resp[p].body.success
           /\ resp[p].body.image_url = req[p].image_url
           /\ resp[p].body.basic_caption = loc[p].basic_caption
           /\ resp[p].body.enhanced_caption = loc[p].enhanced_caption
           /\ resp[p].body.style = req[p].style

C8_FaultWritesNothing ==
    \A p \in Procs :
        (pc[p] = "save" /\ pc'[p] # "save" /\ Failed(p, "INSERT")')
        => store' = store /\ nextId' = nextId

C8_StorageBestEffort == []C8_ResponseDespiteFault /\ [][C8_FaultWritesNothing]_vars

\* the insert faulted after an enhancement that succeeded
C8_Witness ==
    \E p \in Procs :
        /\ Done(p, "generate") /\ Failed(p, "INSERT")
        /\ Called(p, "groq") /\ ~Failed(p, "groq")
        /\ loc[p].enhanced_caption # loc[p].basic_caption

----------------------------------------------------------------------------
(* C9: get_history answers success with at most limit rows, all of them the *)
(* requesting user's, in strictly descending created_at, the most recent    *)
(* ones when the user has more, and no rows when the user has none or the   *)
(* query faults.                                                            *)

C9_ListByUser ==
    \A p \in Procs :
        (Done(p, "history") /\ Verified(p))
        => LET mine == {r \in store : r.user_id = loc[p].user_id}
           IN  /\ resp[p].status = 200
               /\ Len(HistoryOf(p)) <= (IF req[p].limit < 0 THEN 0 ELSE req[p].limit)
               /\ \A i \in 1..Len(HistoryOf(p)) :
                     \E r \in mine : Columns(r) = HistoryOf(p)[i]
               /\ \A i, j \in 1..Len(HistoryOf(p)) :
                     i < j => HistoryOf(p)[i].created_at > HistoryOf(p)[j].created_at
               /\ \A r \in mine :
                     (\A i \in 1..Len(HistoryOf(p)) : HistoryOf(p)[i].id # r.id)
                     => \A i \in 1..Len(HistoryOf(p)) :
                           HistoryOf(p)[i].created_at >= r.created_at
               /\ (mine = {} \/ Failed(p, "SELECT")) => HistoryOf(p) = <<>>

----------------------------------------------------------------------------
(* C10: authentication comes first. A request of any of the four handlers   *)
(* whose Authorization header is missing or empty, or whose token           *)
(* verify_id_token rejects, ends with 401 and has made no call but that     *)
(* verification: no fetch, inference, enhancement, table read or write.     *)

C10_AuthFirst ==
    \A p \in Procs :
        (pc[p] \notin {"idle", "auth"}
            /\ (~Truthy(req[p].authorization) \/ Failed(p, "verify_id_token")))
        => /\ pc[p] = "done" /\ resp[p].status = 401
           /\ \A i \in 1..Len(calls[p]) : calls[p][i].name = "verify_id_token"

\* a generate-caption request that is valid but for its rejected token has
\* ended with 401
C10_Witness ==
    \E p \in Procs :
        /\ Done(p, "generate") /\ resp[p].status = 401
        /\ req[p].authorization = Some(Str("Bearer bad"))
        /\ req[p].image_url = GoodUrl

====
